---- MODULE Spec2Model ----
(***************************************************************************)
(* Asynchronous skybox bake of the glTF viewer: Skybox::load spawns one    *)
(* background thread per accepted request, the thread decodes the          *)
(* panorama, records the bake passes, submits them and waits on a fence;   *)
(* Skybox::update joins a finished thread and swaps the skybox binding.    *)
(***************************************************************************)
EXTENDS FiniteSets, Integers, Sequences, TLC

\* ------------------------------------------------------------------ bounds
\* number of load() calls issued by the owning thread (accepted or dropped)
MaxLoads == 3
\* decoded panorama widths 1..MaxW and heights 1..MaxH
MaxW == 5
MaxH == 2
\* recorded frames that can be in flight at once
MaxFrames == 1

\* ------------------------------------------------------- program constants
\* Option::None for the job handle and for SkyboxRenderer::skybox
None == 0
\* the 1x1 placeholder cube image bound to env_set at startup
Placeholder == 0
\* the BRDF lookup image created by ViewerRenderer::new
StartupLut == 1
\* face size and mip count of the irradiance cube
ConvSize == 8
ConvMips == 1
\* face size and mip count of the prefiltered specular cube
FiltSize == 512
FiltMips == 5
\* mip count of the raw cube
CubeMips == 1
\* array layers of every cube image
CubeLayers == 6
\* the views and cameras zipped by CubemapRenderPipeline::render
NumFaces == 6
\* INDICES.len() of the cube mesh
IndexCount == 36
\* the one CubeMesh created by Skybox::new and shared through its Arc
CubeMeshArc == 1
\* the per-face resolution of the source cubemap assumed by the prefilter shader
SourceResolution == 512
\* SAMPLE_COUNT of the prefilter and BRDF shaders
SAMPLE_COUNT == 1024
\* significant bits of a 32-bit float
FloatBits == 24

VARIABLES
    job,        \* Skybox::job: None or the id of the thread whose JoinHandle is stored
    threads,    \* the background threads not yet joined: id -> [file, pc, res, atLoad]
    gpu,        \* per bake: "idle", "submitted" (command buffer queued), "complete"
    skybox,     \* SkyboxRenderer::skybox: None or the bake whose raw cube is bound
    env_set,    \* ViewerRenderer::env_set: [diffuse, specular], Placeholder or a bake
    ret,        \* value returned by the last update(): None or the bake whose conv image
    drawn,      \* bakes whose images the last recorded frame binds
    mainPc,     \* owning thread: "running", "blocked" (inside join), "panicked"
    nReq,       \* number of load() calls made so far; call k has request id k
    dropped,    \* requests load() returned from without spawning: [req, during]
    spawned,    \* request ids for which a thread was spawned
    prev,       \* file and result of the bake joined last: [file, res]
    frames,     \* recorded frames in flight, oldest first: [sky, env, mesh], the sets each
                \* holds and the mesh it draws
    skySets,    \* skybox descriptor sets by bake: [built, n], n the strong references
    envSets,    \* environment descriptor sets by id: [built, n], n the strong references
    shade       \* the last evaluation of the shaders' sample functions: [fn, bits, mode, rev, xi]

vars == <<job, threads, gpu, skybox, env_set, ret, drawn, mainPc, nReq, dropped, spawned, prev,
         frames, skySets, envSets, shade>>

Reqs == 1..MaxLoads

\* ------------------------------------------------------------- the inputs
\* A file on disk: undecodable, or a panorama decoding to w x h pixels.
Undecodable == [ok |-> FALSE, w |-> 0, h |-> 0]
\* the 4096 x 2048 panorama of the end-to-end scenario
Panorama4096 == [ok |-> TRUE, w |-> 4096, h |-> 2048]
Files == {Undecodable, Panorama4096} \cup [ok : {TRUE}, w : 1..MaxW, h : 1..MaxH]

\* ------------------------------------------------------ skybox/loader.rs
\* Image::new(..).unwrap() of a cube image: the device rejects a zero extent
\* or zero mip levels, the unwrap then panics.
create_cubemap_image(size, mips) ==
    [ok |-> size > 0 /\ mips > 0, size |-> size, mips |-> mips, layers |-> CubeLayers]

\* the 2:1 test of load_skybox, on u32 values
wrong_aspect(w, h) == (w \div 2) # h

\* the staging copy recorded by load_skybox: copy_buffer_to_image
StagingCopy == <<[op |-> "copy_buffer_to_image", image |-> "equi"]>>

\* image::open(path)?  followed by the aspect test, then the staging copy
load_skybox_copy_first(file) ==
    IF ~file.ok THEN [tag |-> "Err", err |-> "Image", extent |-> <<0, 0>>, cmds |-> <<>>]
    ELSE IF wrong_aspect(file.w, file.h)
         THEN [tag |-> "Err", err |-> "WrongAspect", extent |-> <<0, 0>>, cmds |-> StagingCopy]
         ELSE [tag |-> "Ok", err |-> "", extent |-> <<file.w, file.h>>, cmds |-> StagingCopy]
load_skybox(file) ==
    IF ~file.ok THEN [tag |-> "Err", err |-> "Image", extent |-> <<0, 0>>, cmds |-> <<>>]
    ELSE IF wrong_aspect(file.w, file.h)
         THEN [tag |-> "Err", err |-> "WrongAspect", extent |-> <<0, 0>>, cmds |-> <<>>]
         ELSE [tag |-> "Ok", err |-> "", extent |-> <<file.w, file.h>>, cmds |-> StagingCopy]

\* face size of the raw cube: equi.extent()[0] / 4
cube_size_height(extent) == extent[2] \div 4
cube_size(extent) == extent[1] \div 4

NoImages == <<>>

\* the result slot of a closure that has not yet run loader.load
NoResult == [tag |-> "None", err |-> "", images |-> NoImages, cmds |-> <<>>]

\* -------------------------------------------------------- cubemap/mesh.rs
\* VERTICES: the eight corners, each coordinate -0.5 or 0.5, kept as its sign
VERTICES ==
    << <<-1, -1, -1>>, << 1, -1, -1>>, << 1,  1, -1>>, <<-1,  1, -1>>,
       <<-1, -1,  1>>, << 1, -1,  1>>, << 1,  1,  1>>, <<-1,  1,  1>> >>

\* INDICES, zero-based as in the source
INDICES_one_face_twice ==
    << 6, 5, 4,  4, 7, 6,
       2, 3, 0,  0, 1, 2,
       7, 4, 0,  0, 3, 7,
       6, 2, 1,  1, 5, 6,
       6, 7, 3,  3, 2, 6,
       6, 7, 3,  3, 2, 6 >>
INDICES ==
    << 6, 5, 4,  4, 7, 6,
       2, 3, 0,  0, 1, 2,
       7, 4, 0,  0, 3, 7,
       6, 2, 1,  1, 5, 6,
       6, 7, 3,  3, 2, 6,
       5, 1, 0,  0, 4, 5 >>

\* the cube field of the three CubemapRenderPipelines and of SkyboxRenderer:
\* clones of the Arc made in Skybox::new
cube_of_own_mesh(owner) == IF owner = "skybox" THEN CubeMeshArc + 1 ELSE CubeMeshArc
cube_of(owner) == CubeMeshArc

\* ---------------------------------------------------- cubemap/renderer.rs
\* perspective_rh_zo(1.0, FRAC_PI_2, 0.1, 10.0): aspect 1, vertical field of
\* view 90 degrees, near 1/10, far 10
proj == [aspect |-> 1, fovy |-> 90, near |-> <<1, 10>>, far |-> <<10, 1>>]

\* create_cubemap_cameras: look_at_rh(eye, center, up) and proj per face
create_cubemap_cameras_z_first ==
    << [eye |-> <<0, 0, 0>>, center |-> << 0,  0,  1>>, up |-> <<0, -1,  0>>, proj |-> proj],
       [eye |-> <<0, 0, 0>>, center |-> << 0,  0, -1>>, up |-> <<0, -1,  0>>, proj |-> proj],
       [eye |-> <<0, 0, 0>>, center |-> << 0,  1,  0>>, up |-> <<0,  0,  1>>, proj |-> proj],
       [eye |-> <<0, 0, 0>>, center |-> << 0, -1,  0>>, up |-> <<0,  0, -1>>, proj |-> proj],
       [eye |-> <<0, 0, 0>>, center |-> << 1,  0,  0>>, up |-> <<0, -1,  0>>, proj |-> proj],
       [eye |-> <<0, 0, 0>>, center |-> <<-1,  0,  0>>, up |-> <<0, -1,  0>>, proj |-> proj] >>
create_cubemap_cameras ==
    << [eye |-> <<0, 0, 0>>, center |-> << 1,  0,  0>>, up |-> <<0, -1,  0>>, proj |-> proj],
       [eye |-> <<0, 0, 0>>, center |-> <<-1,  0,  0>>, up |-> <<0, -1,  0>>, proj |-> proj],
       [eye |-> <<0, 0, 0>>, center |-> << 0,  1,  0>>, up |-> <<0,  0,  1>>, proj |-> proj],
       [eye |-> <<0, 0, 0>>, center |-> << 0, -1,  0>>, up |-> <<0,  0, -1>>, proj |-> proj],
       [eye |-> <<0, 0, 0>>, center |-> << 0,  0,  1>>, up |-> <<0, -1,  0>>, proj |-> proj],
       [eye |-> <<0, 0, 0>>, center |-> << 0,  0, -1>>, up |-> <<0, -1,  0>>, proj |-> proj] >>

RECURSIVE Pow2(_)
Pow2(n) == IF n = 0 THEN 1 ELSE 2 * Pow2(n - 1)

\* (extent >> mip).max(1)
mip_extent_base(size, mip) == size
mip_extent(size, mip) ==
    LET e == size \div Pow2(mip) IN IF e < 1 THEN 1 ELSE e

\* the sub-resource viewed by views[i]: mip_levels mip..mip+1, array_layers i..i+1
view_mip0(image, i, mip) == [image |-> image, layer |-> i, mip |-> 0]
view_layer0(image, i, mip) == [image |-> image, layer |-> 0, mip |-> mip]
view(image, i, mip) == [image |-> image, layer |-> i, mip |-> mip]

\* one iteration of the loop over views.zip(cameras): framebuffer, begin, bind
\* pipeline, bind camera i and the source set, draw the cube (CubeMesh::render
\* binds the mesh's vertex and index buffer and draws ilen indices), end
FacePass_unclosed(pipeline, source, image, size, mip, i) ==
    << [op |-> "begin_render_pass", target |-> view(image, i, mip),
        extent |-> mip_extent(size, mip)],
       [op |-> "bind_pipeline_graphics", pipeline |-> pipeline],
       [op |-> "bind_descriptor_sets", camera |-> i, source |-> source],
       [op |-> "draw_indexed", mesh |-> cube_of(pipeline), count |-> IndexCount] >>
FacePass(pipeline, source, image, size, mip, i) ==
    << [op |-> "begin_render_pass", target |-> view(image, i, mip),
        extent |-> mip_extent(size, mip)],
       [op |-> "bind_pipeline_graphics", pipeline |-> pipeline],
       [op |-> "bind_descriptor_sets", camera |-> i, source |-> source],
       [op |-> "draw_indexed", mesh |-> cube_of(pipeline), count |-> IndexCount],
       [op |-> "end_render_pass"] >>

RECURSIVE FacePasses(_, _, _, _, _, _)
FacePasses(pipeline, source, image, size, mip, i) ==
    IF i >= NumFaces THEN <<>>
    ELSE FacePass(pipeline, source, image, size, mip, i)
            \o FacePasses(pipeline, source, image, size, mip, i + 1)

\* CubemapRenderPipeline::render(builder, set, image, mip)
CubemapRenderPipeline_render(pipeline, source, image, size, mip) ==
    << [op |-> "set_viewport", extent |-> mip_extent(size, mip)],
       [op |-> "set_scissor"] >>
       \o FacePasses(pipeline, source, image, size, mip, 0)

\* ------------------------------------------------------ skybox/loader.rs
\* roughness = mip as f32 / (mips - 1) as f32, kept as a fraction
roughness_leftover(mip, mips) == [num |-> mip + Cardinality(spawned) - 1, den |-> mips - 1]
roughness_over_mips(mip, mips) == [num |-> mip, den |-> mips]
roughness(mip, mips) == [num |-> mip, den |-> mips - 1]

\* the loop  for mip in 0..mips : push the roughness, render the six faces
filter_mip_descending(mip, mips) == mips - 1 - mip
filter_mip(mip, mips) == mip

RECURSIVE FilterPasses(_, _)
FilterPasses(k, mips) ==
    IF k >= mips THEN <<>>
    ELSE LET mip == filter_mip(k, mips) IN
         << [op |-> "push_constants", pipeline |-> "filt", roughness |-> roughness(mip, mips)] >>
            \o CubemapRenderPipeline_render("filt", "cube_set", "filt", FiltSize, mip)
            \o FilterPasses(k + 1, mips)

\* let mips = 5; for mip in 0..mips { .. }
PrefilterPasses == FilterPasses(0, FiltMips)

\* the convolution of the raw cube into the 8 x 8 irradiance cube
ConvolutePasses == CubemapRenderPipeline_render("conv", "cube_set", "conv", ConvSize, 0)

\* the image each descriptor set of the bake samples: equi_set the decoded
\* panorama, cube_set the raw cube
set_image(source) == IF source = "equi_set" THEN "equi" ELSE "cube"

\* SkyboxLoader::load: Ok((cube, conv, filt)), Err(e), or a panic inside
\* create_cubemap_image; cmds is what the call recorded into the builder
SkyboxLoader_load(file) ==
    LET equi == load_skybox(file) IN
    IF equi.tag = "Err"
    THEN [tag |-> "Err", err |-> equi.err, images |-> NoImages, cmds |-> equi.cmds]
    ELSE LET size == cube_size(equi.extent)
             cube == create_cubemap_image(size, CubeMips)
             conv == create_cubemap_image(ConvSize, ConvMips)
             filt == create_cubemap_image(FiltSize, FiltMips)
         IN IF cube.ok /\ conv.ok /\ filt.ok
            THEN [tag |-> "Ok", err |-> "", images |-> <<cube, conv, filt>>,
                  cmds |-> equi.cmds
                           \o CubemapRenderPipeline_render("equi", "equi_set", "cube", size, 0)
                           \o ConvolutePasses
                           \o PrefilterPasses]
            ELSE [tag |-> "Panic", err |-> "ImageCreate", images |-> NoImages,
                  cmds |-> equi.cmds]

\* ------------------------------------- cubemap/filt.rs, cubemap/brdf.rs
\* a uint is the set of the positions of its set bits, bit 0 the lowest
BitPositions == 0..31

\* bit j of a 16-bit half of a hexadecimal literal
Bit(n, j) == (n \div Pow2(j)) % 2

\* the uint with the given high and low 16-bit halves
uint(hi, lo) == {j \in 0..15 : Bit(lo, j) = 1} \cup {j + 16 : j \in {k \in 0..15 : Bit(hi, k) = 1}}

\* bits << k and bits >> k on 32-bit uints: the bits shifted out are lost
shl(b, k) == {j + k : j \in b} \cap BitPositions
shr(b, k) == {j - k : j \in b} \cap BitPositions
bit_and(a, b) == a \cap b
bit_or(a, b) == a \cup b

\* ((bits & low) << k) | ((bits & high) >> k)
swap_low_only(bits, low, high, k) == shl(bit_and(bits, low), k)
swap(bits, low, high, k) == bit_or(shl(bit_and(bits, low), k), shr(bit_and(bits, high), k))

\* the five steps of radical_inverse_vdc before the conversion to float; the
\* masks are 0x55555555 / 0xAAAAAAAA, 0x33333333 / 0xCCCCCCCC,
\* 0x0F0F0F0F / 0xF0F0F0F0 and 0x00FF00FF / 0xFF00FF00
reverse_steps(bits) ==
    LET b1 == bit_or(shl(bits, 16), shr(bits, 16))
        b2 == swap(b1, uint(21845, 21845), uint(43690, 43690), 1)
        b3 == swap(b2, uint(13107, 13107), uint(52428, 52428), 2)
        b4 == swap(b3, uint(3855, 3855), uint(61680, 61680), 4)
    IN swap(b4, uint(255, 255), uint(65280, 65280), 8)

\* the index of the highest set bit, -1 for zero
Msb(b) == IF b = {} THEN -1 ELSE CHOOSE j \in b : \A k \in b : k <= j

\* the number formed by bits lo..hi
RECURSIVE BitsValue(_, _, _)
BitsValue(b, lo, hi) ==
    IF hi < lo THEN 0 ELSE (IF lo \in b THEN 1 ELSE 0) + 2 * BitsValue(b, lo + 1, hi)

\* the conversion float(bits): 24 significant bits, the rest rounded to nearest
\* (ties to even) or towards zero as the implementation chooses; the value
\* is mant * 2^exp
RoundingModes == {"RTE", "RTZ"}
float_of(b, mode) ==
    LET m == Msb(b) IN
    IF m < FloatBits THEN [mant |-> BitsValue(b, 0, FloatBits - 1), exp |-> 0]
    ELSE LET exp == m - (FloatBits - 1)
             mant == BitsValue(b, exp, m)
             half == (exp - 1) \in b
             sticky == \E j \in b : j < exp - 1
             up == mode = "RTE" /\ half /\ (sticky \/ mant % 2 = 1)
         IN [mant |-> IF up THEN mant + 1 ELSE mant, exp |-> exp]

\* float(bits) * 2.3283064365386963e-10, the factor being 2^-32 exactly
radical_inverse_vdc(bits, mode) ==
    LET f == float_of(reverse_steps(bits), mode) IN [mant |-> f.mant, exp |-> f.exp - 32]

\* vec2(float(i) / float(N), radical_inverse_vdc(i))
hammersley(i, N, mode) ==
    [x |-> [num |-> float_of(i, mode), den |-> float_of(N, mode)],
     y |-> radical_inverse_vdc(i, mode)]

\* uints with set high bits, by their 16-bit halves
Halves == {0, 1, 255, 4660, 32768, 43690, 65408, 65535}
Words == {uint(hi, lo) : hi \in Halves, lo \in Halves}

NoShade == [fn |-> "none"]

\* ------------------------------------------- Arc<DescriptorSet> references
EnvIds == 0..MaxLoads
Unbuilt == [built |-> FALSE, n |-> 0]

\* DescriptorSet::new(..).unwrap(): a new set with one strong reference
build(sets, id) == [sets EXCEPT ![id] = [built |-> TRUE, n |-> 1]]

\* .clone() of the Arc handed to bind_descriptor_sets: the recorded frame
\* holds its own strong reference
hold_nothing(sets, ids) == sets
hold(sets, ids) ==
    [i \in DOMAIN sets |-> IF i \in ids THEN [sets[i] EXCEPT !.n = @ + 1] ELSE sets[i]]

\* drop of an Arc: the set is released when the last reference goes
release(sets, ids) ==
    [i \in DOMAIN sets |-> IF i \in ids THEN [sets[i] EXCEPT !.n = @ - 1] ELSE sets[i]]

\* --------------------------------------------------------- skybox/mod.rs
\* the thread's closure has returned or panicked
ThreadExited(t) == threads[t].pc \in {"done", "panicked"}

\* JoinHandle::is_finished, the predicate of take_if in update
is_finished_always(t) == TRUE
is_finished(t) == ThreadExited(t)

\* join() returns Ok(value) for a closure that returned, Err for one that panicked
join_ok_always(t) == TRUE
join_ok(t) == threads[t].pc = "done"

\* Skybox::loading
loading_never == FALSE
loading_unfinished == job # None /\ threads[job].pc \notin {"done", "panicked"}
loading == job # None

\* wait(None) on the fence of the submitted command buffer returns
fence_unchecked(t) == TRUE
fence_signaled(t) == gpu[t] = "complete"

\* the job state of the handoff protocol
State ==
    IF job = None THEN "Idle"
    ELSE IF job \in DOMAIN threads /\ ThreadExited(job) THEN "Ready"
    ELSE "Loading"

Alive == {t \in DOMAIN threads : ~ThreadExited(t)}

Init ==
    /\ job = None
    /\ threads = [t \in {} |-> 0]
    /\ gpu = [r \in Reqs |-> "idle"]
    /\ skybox = None
    /\ env_set = [id |-> 0, diffuse |-> Placeholder, specular |-> Placeholder, lut |-> StartupLut]
    /\ ret = None
    /\ drawn = {}
    /\ mainPc = "running"
    /\ nReq = 0
    /\ dropped = {}
    /\ spawned = {}
    /\ prev = [file |-> Undecodable, res |-> NoResult]
    /\ frames = <<>>
    /\ skySets = [i \in Reqs |-> Unbuilt]
    /\ envSets = build([i \in EnvIds |-> Unbuilt], 0)
    /\ shade = NoShade

\* Skybox::load(path, queue)
load(file) ==
    /\ mainPc = "running"
    /\ nReq < MaxLoads
    /\ nReq' = nReq + 1
    /\ IF loading
       THEN /\ dropped' = dropped \cup {[req |-> nReq + 1, during |-> State]}
            /\ UNCHANGED <<job, threads, spawned>>
       ELSE /\ threads' = [t \in DOMAIN threads \cup {nReq + 1} |->
                             IF t = nReq + 1
                             THEN [file |-> file, pc |-> "spawned",
                                   res |-> NoResult,
                                   atLoad |-> <<skybox, env_set>>]
                             ELSE threads[t]]
            /\ job' = nReq + 1
            /\ spawned' = spawned \cup {nReq + 1}
            /\ UNCHANGED dropped
    /\ UNCHANGED <<gpu, skybox, env_set, ret, drawn, mainPc, prev, frames, skySets, envSets,
                   shade>>

Load == \E file \in Files : load(file)

\* the spawned closure, line 84: loader.load(path, &mut builder).unwrap()
ThreadLoad(t) ==
    /\ t \in DOMAIN threads
    /\ threads[t].pc = "spawned"
    /\ LET r == SkyboxLoader_load(threads[t].file) IN
       threads' = [threads EXCEPT ![t].res = r,
                                  ![t].pc = IF r.tag = "Ok" THEN "recorded" ELSE "panicked"]
    /\ UNCHANGED <<job, gpu, skybox, env_set, ret, drawn, mainPc, nReq, dropped, spawned, prev,
                   frames, skySets, envSets, shade>>

\* lines 85-90: build the command buffer, execute it on the queue, flush
ThreadSubmit(t) ==
    /\ t \in DOMAIN threads
    /\ threads[t].pc = "recorded"
    /\ threads' = [threads EXCEPT ![t].pc = "waiting"]
    /\ gpu' = [gpu EXCEPT ![t] = "submitted"]
    /\ UNCHANGED <<job, skybox, env_set, ret, drawn, mainPc, nReq, dropped, spawned, prev,
                   frames, skySets, envSets, shade>>

\* lines 91-94: the fence wait returns and the closure returns the images
ThreadWait(t) ==
    /\ t \in DOMAIN threads
    /\ threads[t].pc = "waiting"
    /\ fence_signaled(t)
    /\ threads' = [threads EXCEPT ![t].pc = "done"]
    /\ UNCHANGED <<job, gpu, skybox, env_set, ret, drawn, mainPc, nReq, dropped, spawned, prev,
                   frames, skySets, envSets, shade>>

\* the queue executes a submitted command buffer and signals its fence
GpuExecute(r) ==
    /\ gpu[r] = "submitted"
    /\ gpu' = [gpu EXCEPT ![r] = "complete"]
    /\ UNCHANGED <<job, threads, skybox, env_set, ret, drawn, mainPc, nReq, dropped, spawned, prev,
                   frames, skySets, envSets, shade>>

\* ViewerRenderer::new_env(diffuse, specular): a freshly built descriptor set
\* binding 2 is self.lut_write.clone(), the write built once in new
new_env_in_place(diffuse, specular) ==
    [env_set EXCEPT !.diffuse = diffuse, !.specular = specular]
new_env_fresh_lut(diffuse, specular) ==
    [id |-> diffuse, diffuse |-> diffuse, specular |-> specular, lut |-> StartupLut + diffuse]
new_env(diffuse, specular) ==
    [id |-> diffuse, diffuse |-> diffuse, specular |-> specular, lut |-> StartupLut]

\* Skybox::update: take_if(is_finished), join().unwrap(), build cube_set from
\* the raw cube, store it in renderer.skybox, return Some(conv)
update ==
    /\ mainPc = "running"
    /\ IF job # None /\ is_finished(job)
       THEN /\ job' = None
            /\ IF ~ThreadExited(job)
               THEN \* join() blocks until the thread exits
                    /\ mainPc' = "blocked"
                    /\ UNCHANGED <<threads, skybox, ret, prev, skySets>>
               ELSE IF join_ok(job)
               THEN /\ skybox' = job
                    /\ ret' = job
                    /\ prev' = [file |-> threads[job].file, res |-> threads[job].res]
                    /\ skySets' = build(release(skySets, {skybox} \ {None}), job)
                    /\ threads' = [t \in DOMAIN threads \ {job} |-> threads[t]]
                    /\ UNCHANGED mainPc
               ELSE \* unwrap() of Err: the owning thread panics
                    /\ mainPc' = "panicked"
                    /\ threads' = [t \in DOMAIN threads \ {job} |-> threads[t]]
                    /\ UNCHANGED <<skybox, ret, prev, skySets>>
       ELSE /\ ret' = None
            /\ UNCHANGED <<job, threads, skybox, mainPc, prev, skySets>>
    /\ UNCHANGED <<gpu, drawn, nReq, dropped, spawned, frames, shade>>

\* the per-frame poll of the owning thread: update(), and when it delivered
\* images, new_env with the diffuse and specular cubes of that bake
poll ==
    /\ update
    /\ env_set' = IF mainPc' = "running" /\ ret' # None THEN new_env(ret', ret') ELSE env_set
    /\ envSets' = IF mainPc' = "running" /\ ret' # None
                  THEN build(release(envSets, {env_set.id}), env_set'.id)
                  ELSE envSets

\* SkyboxRenderer::render and ViewerRenderer::render record one frame; each
\* bind_descriptor_sets is given a clone of the Arc in the slot
render(hasScene) ==
    /\ mainPc = "running"
    /\ Len(frames) < MaxFrames
    /\ drawn' = (IF skybox # None THEN {skybox} ELSE {})
                   \cup (IF hasScene THEN {env_set.diffuse, env_set.specular} \ {Placeholder}
                         ELSE {})
    /\ LET sky == {skybox} \ {None}
           env == IF hasScene THEN {env_set.id} ELSE {}
           mesh == IF skybox # None THEN {cube_of("skybox")} ELSE {}
       IN /\ frames' = Append(frames, [sky |-> sky, env |-> env, mesh |-> mesh])
          /\ skySets' = hold(skySets, sky)
          /\ envSets' = hold(envSets, env)
    /\ UNCHANGED <<job, threads, gpu, skybox, env_set, ret, mainPc, nReq, dropped, spawned, prev,
                   shade>>

\* the oldest frame in flight completes and its command buffer, with the
\* references it holds, is dropped
FrameDone ==
    /\ frames # <<>>
    /\ frames' = Tail(frames)
    /\ skySets' = release(skySets, Head(frames).sky)
    /\ envSets' = release(envSets, Head(frames).env)
    /\ UNCHANGED <<job, threads, gpu, skybox, env_set, ret, drawn, mainPc, nReq, dropped,
                   spawned, prev, shade>>

Render == \E hasScene \in BOOLEAN : render(hasScene)

Next ==
    \/ Load
    \/ poll
    \/ Render
    \/ FrameDone
    \/ \E t \in Reqs : ThreadLoad(t)
    \/ \E t \in Reqs : ThreadSubmit(t)
    \/ \E t \in Reqs : ThreadWait(t)
    \/ \E r \in Reqs : GpuExecute(r)

Spec == Init /\ [][Next]_vars

\* the background thread and the queue are scheduled; update is called every frame
FairSpec ==
    /\ Spec
    /\ \A t \in Reqs : WF_vars(ThreadLoad(t)) /\ WF_vars(ThreadSubmit(t)) /\ WF_vars(ThreadWait(t))
    /\ \A r \in Reqs : WF_vars(GpuExecute(r))
    /\ WF_vars(poll)

\* one iteration of the sample loop of the prefilter or BRDF fragment shader:
\* for(uint i = 0u; i < SAMPLE_COUNT; i++) { vec2 xi = hammersley(i, SAMPLE_COUNT); .. }
FsSample(mode) ==
    LET i == IF shade.fn = "hammersley" THEN shade.i + 1 ELSE 0 IN
    /\ shade.fn \in {"none", "hammersley"}
    /\ i < SAMPLE_COUNT
    /\ shade' = [fn |-> "hammersley", i |-> i, bits |-> uint(0, i), mode |-> mode,
                 rev |-> reverse_steps(uint(0, i)),
                 xi |-> hammersley(uint(0, i), uint(0, SAMPLE_COUNT), mode)]
    /\ UNCHANGED <<job, threads, gpu, skybox, env_set, ret, drawn, mainPc, nReq, dropped,
                   spawned, prev, frames, skySets, envSets>>

\* radical_inverse_vdc applied to an arbitrary uint
FsRadicalInverse(bits, mode) ==
    /\ shade = NoShade
    /\ shade' = [fn |-> "radical_inverse_vdc", bits |-> bits, mode |-> mode,
                 rev |-> reverse_steps(bits), xi |-> [y |-> radical_inverse_vdc(bits, mode)]]
    /\ UNCHANGED <<job, threads, gpu, skybox, env_set, ret, drawn, mainPc, nReq, dropped,
                   spawned, prev, frames, skySets, envSets>>

ShaderNext ==
    \/ \E mode \in RoundingModes : FsSample(mode)
    \/ \E bits \in Words : \E mode \in RoundingModes : FsRadicalInverse(bits, mode)

\* the sample functions of the shaders, evaluated on their inputs
ShaderSpec == Init /\ [][ShaderNext]_vars

TypeOK ==
    /\ job \in {None} \cup Reqs
    /\ DOMAIN threads \subseteq Reqs
    /\ \A t \in DOMAIN threads : threads[t].pc \in {"spawned", "recorded", "waiting", "done", "panicked"}
    /\ skybox \in {None} \cup Reqs
    /\ mainPc \in {"running", "blocked", "panicked"}
    /\ nReq \in 0..MaxLoads

\* ------------------------------------------------------------------ claims
\* a step in which the owning thread called load()
LoadCalled == nReq' # nReq

\* a thread that has run loader.load on a decodable panorama
Decoded(t) == threads[t].pc # "spawned" /\ threads[t].file.ok

\* C1: load() while a job is Loading is a no-op: no thread is spawned, the job
\* handle and the bindings stay as they are, and the dropped request is never
\* run by any thread afterwards.
C1_LoadWhileLoadingIsNoop ==
    /\ [](\A d \in dropped : d.req \notin spawned /\ d.req \notin DOMAIN threads)
    /\ [][(LoadCalled /\ State = "Loading") =>
            /\ UNCHANGED <<job, threads, gpu, skybox, env_set, ret, drawn, spawned>>
            /\ dropped' = dropped \cup {[req |-> nReq', during |-> "Loading"]}]_vars

C1_Witness == \E d \in dropped : d.during = "Loading" /\ job # None /\ job < d.req

\* C2: at most one bake thread is alive (spawned and not yet exited) in every
\* reachable state.
C2_AtMostOneThreadAlive == Cardinality(Alive) <= 1 /\ Cardinality(DOMAIN threads) <= 1

C2_Witness == Cardinality(Alive) = 1 /\ nReq >= 2 /\ Cardinality(spawned) >= 2

\* C3: a failed bake job leaves the skybox binding and the environment binding
\* as they were when load() was called, also after poll has observed the job.
C3_FailedJobKeepsBinding ==
    /\ [](\A t \in DOMAIN threads :
              threads[t].pc = "panicked" => <<skybox, env_set>> = threads[t].atLoad)
    /\ [][((job # None /\ job \in DOMAIN threads /\ threads[job].pc = "panicked")
              \/ mainPc = "panicked")
            => UNCHANGED <<skybox, env_set>>]_vars

C3_Witness == mainPc = "panicked" /\ skybox # None /\ env_set.diffuse # Placeholder

\* C4: every decoded panorama with width # 2 * height is rejected with
\* WrongAspect and yields no image.
C4_WrongAspectRejected ==
    \A t \in DOMAIN threads :
        (Decoded(t) /\ threads[t].file.w # 2 * threads[t].file.h)
            => /\ threads[t].res.tag = "Err"
               /\ threads[t].res.err = "WrongAspect"
               /\ threads[t].res.images = NoImages

\* C5: a thread returns only after the GPU has completed its bake, the swap
\* happens only after that thread has been joined, and no recorded frame binds
\* images of a bake whose GPU work has not completed.
GpuComplete(r) == gpu[r] = "complete" /\ r \notin DOMAIN threads

C5_SwapAfterGpuCompletion ==
    /\ \A t \in DOMAIN threads : threads[t].pc = "done" => gpu[t] = "complete"
    /\ skybox # None => GpuComplete(skybox)
    /\ env_set.diffuse # Placeholder => GpuComplete(env_set.diffuse)
    /\ env_set.specular # Placeholder => GpuComplete(env_set.specular)
    /\ \A r \in drawn : GpuComplete(r)

C5_Witness == drawn # {} /\ skybox \in drawn

\* C6: the owning thread never waits on an unfinished job: update joins only a
\* thread that has exited, and load returns while its thread has not yet
\* decoded, recorded or submitted anything.
C6_OwnerNeverBlocks ==
    /\ [](mainPc # "blocked")
    /\ [][(job # None /\ job' # job) => ThreadExited(job)]_vars
    /\ [][spawned' # spawned =>
            /\ threads'[job'].pc = "spawned"
            /\ gpu' = gpu
            /\ mainPc' = "running"]_vars

C6_Witness == ret # None /\ mainPc = "running" /\ job # None /\ ~ThreadExited(job)

\* C7 (as stated): every panorama with width = 2 * height loads successfully
\* with a raw cube of face size height / 4.
ExpectedImages(rawSize) ==
    << [ok |-> TRUE, size |-> rawSize, mips |-> 1, layers |-> 6],
       [ok |-> TRUE, size |-> 8, mips |-> 1, layers |-> 6],
       [ok |-> TRUE, size |-> 512, mips |-> 5, layers |-> 6] >>

C8_LoadSpawnsUnlessLoading ==
    [][(LoadCalled /\ State # "Loading") => spawned' # spawned]_vars

\* C8 (amended): load() spawns a thread only in Idle (no job handle stored); in
\* Loading and in Ready (finished but not yet consumed) it is a no-op.
C8_LoadSpawnsOnlyWhenIdle ==
    [][LoadCalled =>
         IF State = "Idle"
         THEN /\ spawned' = spawned \cup {nReq'}
              /\ job' = nReq'
              /\ Alive' = Alive \cup {nReq'}
         ELSE UNCHANGED <<job, threads, spawned, gpu>>]_vars

C8_Witness == \E d \in dropped : d.during = "Ready"

\* C9: the job state changes only Idle -> Loading, Loading -> Ready and
\* Ready -> Idle.
C9_StateTransitions ==
    [][State' # State =>
         <<State, State'>> \in {<<"Idle", "Loading">>, <<"Loading", "Ready">>,
                                <<"Ready", "Idle">>}]_vars

C9_Witness == State = "Idle" /\ ret # None /\ skybox # None /\ mainPc = "running"

\* C10: every job that enters Loading eventually finishes, and with poll being
\* called the state returns to Idle with the owning thread able to issue a
\* later load().
C10_JobFinishesAndIdleReturns ==
    (State = "Loading") ~> (State = "Idle" /\ mainPc = "running")

\* the render passes of a command stream, in recording order, each with the
\* pipeline, camera and source set bound for its draw and the roughness push
\* constant in effect
NoRoughness == [num |-> 0, den |-> 0]

Indexes(cmds, op) ==
    SelectSeq([i \in 1..Len(cmds) |-> i], LAMBDA i : cmds[i].op = op)

RoughnessAt(cmds, pushes, i) ==
    LET before == SelectSeq(pushes, LAMBDA j : j < i)
    IN IF before = <<>> THEN NoRoughness ELSE cmds[before[Len(before)]].roughness

Passes(cmds) ==
    LET begins == Indexes(cmds, "begin_render_pass")
        pushes == Indexes(cmds, "push_constants")
    IN [k \in 1..Len(begins) |->
          LET i == begins[k]
          IN [kind |-> cmds[i + 1].pipeline, target |-> cmds[i].target,
              extent |-> cmds[i].extent, camera |-> cmds[i + 2].camera,
              source |-> cmds[i + 2].source, roughness |-> RoughnessAt(cmds, pushes, i)]]

\* a thread whose loader.load returned Ok
Baked(t) == threads[t].res.tag = "Ok"

\* C12: a job that fails with a decode or aspect error has recorded no staging
\* copy and no draw, created no cube image and submitted nothing to the queue.
C12_ErrorsBeforeGpuWork ==
    \A t \in DOMAIN threads :
        threads[t].res.tag = "Err"
            => /\ threads[t].res.err \in {"Image", "WrongAspect"}
               /\ threads[t].res.cmds = <<>>
               /\ threads[t].res.images = NoImages
               /\ threads[t].pc = "panicked"
               /\ gpu[t] = "idle"

C12_Witness ==
    /\ \E t \in DOMAIN threads : threads[t].res.err = "WrongAspect"
    /\ \E r \in Reqs : gpu[r] = "complete"

C18_RawCubeOf4096Is1024 ==
    \A t \in DOMAIN threads :
        (Decoded(t) /\ threads[t].file = Panorama4096)
            => /\ Baked(t)
               /\ threads[t].res.images[1].size = 1024
               /\ \A k \in 1..6 : Passes(threads[t].res.cmds)[k].extent = 1024

C18_Witness ==
    \E t \in DOMAIN threads : threads[t].pc = "done" /\ threads[t].file = Panorama4096

\* C19: the command buffer records the source upload first, then the six
\* EquirectToCube faces, the six IrradianceConvolution faces and the
\* SpecularPrefilter faces of mips 0..4 in ascending order; every pass that
\* samples the raw cube comes after all six raw-cube faces were written.
ExpectedOrder ==
    [k \in 1..42 |->
        IF k <= 6 THEN <<"equi", "cube", k - 1, 0>>
        ELSE IF k <= 12 THEN <<"conv", "conv", k - 7, 0>>
        ELSE <<"filt", "filt", (k - 13) % 6, (k - 13) \div 6>>]

C19_PassOrder ==
    \A t \in DOMAIN threads :
        Baked(t) =>
            LET cmds == threads[t].res.cmds
                ps == Passes(cmds)
            IN /\ cmds[1].op = "copy_buffer_to_image"
               /\ Len(ps) = 42
               /\ \A k \in 1..42 :
                     <<ps[k].kind, ps[k].target.image, ps[k].target.layer, ps[k].target.mip>>
                        = ExpectedOrder[k]
               /\ LET raw == {k \in 1..42 : ps[k].target.image = "cube"}
                  IN /\ {ps[k].target : k \in raw} = [image : {"cube"}, layer : 0..5, mip : {0}]
                     /\ \A k \in 1..42 :
                           ps[k].source = "cube_set" => \A j \in raw : j < k

C19_Witness ==
    \E t \in DOMAIN threads :
        /\ threads[t].pc = "done"
        /\ Len(threads[t].res.cmds) > 42
        /\ Passes(threads[t].res.cmds)[42].kind = "filt"

\* C20: over one bake every (face, mip) sub-resource of the specular cube and
\* every face of the raw cube and of the irradiance cube is the attachment of
\* exactly one render pass, and no pass attaches anything else: the passes
\* attach exactly these sub-resources and there are as many passes as there
\* are sub-resources.
SubResources ==
    [image : {"cube"}, layer : 0..5, mip : {0}]
        \cup [image : {"conv"}, layer : 0..5, mip : {0}]
        \cup [image : {"filt"}, layer : 0..5, mip : 0..4]

C20_EachSubresourceOnce ==
    \A t \in DOMAIN threads :
        Baked(t) =>
            LET ps == Passes(threads[t].res.cmds)
            IN /\ {ps[k].target : k \in 1..Len(ps)} = SubResources
               /\ Len(ps) = Cardinality(SubResources)

C20_Witness ==
    \E t \in DOMAIN threads :
        /\ threads[t].pc = "done"
        /\ Cardinality({c \in {threads[t].res.cmds[i] : i \in 1..Len(threads[t].res.cmds)} :
                            c.op = "begin_render_pass" /\ c.target.image = "filt"}) = 30

\* C11: when a job that failed with a decode or aspect error is consumed, the
\* caller receives the error as a value and keeps running.
C11_ErrorSurfacedAsValue ==
    [][(job # None /\ job \in DOMAIN threads /\ threads[job].res.tag = "Err" /\ job' # job)
          => mainPc' = "running"]_vars

\* C13: the environment binding changes only in the step that consumes a
\* successfully finished job, and then to a descriptor set built in that step
\* over that bake's images; load, render and a poll that finds no finished job
\* leave it as it is, and until the first successful bake it is the set built
\* at startup over the placeholder image.
StartupEnv == [id |-> 0, diffuse |-> Placeholder, specular |-> Placeholder, lut |-> StartupLut]

C13_EnvReplacedOnlyOnConsume ==
    /\ [](prev.res.tag # "Ok" => env_set = StartupEnv)
    /\ [][env_set' # env_set =>
            /\ job # None /\ job \in DOMAIN threads /\ threads[job].pc = "done"
            /\ job' = None
            /\ env_set'.id # env_set.id
            /\ ~envSets[env_set'.id].built /\ envSets'[env_set'.id].built
            /\ env_set'.diffuse = job /\ env_set'.specular = job]_vars
    /\ [][(LoadCalled \/ frames' # frames \/ (job' = job /\ ret' = None))
            => env_set' = env_set]_vars

C13_Witness ==
    /\ env_set.id = 2
    /\ envSets[1].built /\ envSets[1].n = 0
    /\ envSets[0].built /\ envSets[0].n = 0

\* C14: every descriptor set a frame in flight has bound is still allocated,
\* and the strong references of a set are exactly the slot holding it plus the
\* frames in flight that bound it, so a set is released only when neither a
\* slot nor a frame references it.
SkyRefs(i) ==
    (IF skybox = i THEN 1 ELSE 0) + Cardinality({k \in 1..Len(frames) : i \in frames[k].sky})

EnvRefs(i) ==
    (IF env_set.id = i THEN 1 ELSE 0) + Cardinality({k \in 1..Len(frames) : i \in frames[k].env})

C14_ReplacedBindingOutlivesFrames ==
    /\ \A k \in 1..Len(frames) :
          /\ \A i \in frames[k].sky : skySets[i].built /\ skySets[i].n > 0
          /\ \A i \in frames[k].env : envSets[i].built /\ envSets[i].n > 0
    /\ \A i \in Reqs : skySets[i].built => skySets[i].n = SkyRefs(i)
    /\ \A i \in EnvIds : envSets[i].built => envSets[i].n = EnvRefs(i)

C14_Witness ==
    \E k \in 1..Len(frames) : \E i \in frames[k].env :
        /\ i # env_set.id
        /\ envSets[i].n = 1
        /\ frames[k].sky = {}
        /\ skybox # None

\* C15: the owning thread allocates a descriptor set (the skybox set in
\* update, the environment set in new_env) only in steps in which no bake
\* thread is running, so never while a bake thread is inside loader.load.
OwnerAllocates ==
    \/ \E i \in Reqs : skySets'[i].built /\ ~skySets[i].built
    \/ \E i \in EnvIds : envSets'[i].built /\ ~envSets[i].built

C16_LutCreatedOnce ==
    /\ env_set.lut = StartupLut
    /\ \A t \in DOMAIN threads :
          Baked(t) => /\ Len(threads[t].res.images) = 3
                      /\ \A k \in 1..3 : threads[t].res.images[k].layers = CubeLayers

C16_Witness ==
    /\ env_set.lut = StartupLut
    /\ env_set.diffuse = 2 /\ skybox = 2
    /\ prev.res.tag = "Ok"
    /\ mainPc = "running"

\* C28: the result of a job whose thread returned is delivered by exactly one
\* poll: the poll that finds the job finished removes the handle and the
\* thread and returns that bake; a poll with no job returns None; a delivered
\* bake is older than any job stored later, so it is never delivered again;
\* and a thread that has not been joined is always the stored job, so no
\* finished result is lost.
C28_DeliveredExactlyOnce ==
    /\ [](\A t \in DOMAIN threads : job = t)
    /\ [](job # None /\ skybox # None => job > skybox)
    /\ [][(poll /\ job # None /\ threads[job].pc = "done")
            => /\ ret' = job /\ skybox' = job
               /\ job' = None
               /\ job \notin DOMAIN threads']_vars
    /\ [][(poll /\ mainPc' = "running" /\ ret' # None)
            => job # None /\ threads[job].pc = "done" /\ ret' = job /\ job' = None]_vars
    /\ [][(poll /\ job = None) => ret' = None]_vars

C28_Witness ==
    /\ ret = None /\ job = None
    /\ skybox # None
    /\ mainPc = "running"
    /\ threads = <<>>

\* C29: a poll that finds no job, or a job whose thread has not exited,
\* returns None and leaves the job handle, the thread, the skybox binding and
\* the environment binding as they are.
C29_PollWithoutFinishedJob ==
    [][(poll /\ (job = None \/ ~ThreadExited(job)))
         => /\ ret' = None
            /\ UNCHANGED <<job, threads, skybox, env_set, skySets, envSets, mainPc>>]_vars

C29_Witness ==
    /\ ret = None
    /\ skybox # None
    /\ job # None /\ ~ThreadExited(job)
    /\ mainPc = "running"

\* the bake threads whose loader.load has returned Ok and whose builder is
\* about to be built into the command buffer
Recorded == {t \in DOMAIN threads : threads[t].pc = "recorded"}

\* the face size of the image a pass names, from the images the bake created
ImageSize(images, name) ==
    images[CASE name = "cube" -> 1 [] name = "conv" -> 2 [] name = "filt" -> 3].size

\* the viewport extent in effect at command i
ViewportAt(cmds, viewports, i) ==
    LET before == SelectSeq(viewports, LAMBDA j : j < i)
    IN cmds[before[Len(before)]].extent

\* the extent of mip level m of an image of extent s: halved per level, at least 1
RECURSIVE MipLevelExtent(_, _)
MipLevelExtent(s, m) ==
    IF m = 0 THEN s
    ELSE LET e == MipLevelExtent(s, m - 1) \div 2 IN IF e > 1 THEN e ELSE 1

\* C21: the framebuffer of every pass and the viewport in effect for it have
\* the extent of the mip level the pass attaches, max(1, s >> m) of the
\* image's face size s; for the specular cube that is 512, 256, 128, 64, 32.
C21_RenderTargetExtent ==
    \A t \in Recorded :
        LET cmds == threads[t].res.cmds
            images == threads[t].res.images
            begins == Indexes(cmds, "begin_render_pass")
            viewports == Indexes(cmds, "set_viewport")
        IN \A k \in 1..Len(begins) :
              LET c == cmds[begins[k]]
                  level == MipLevelExtent(ImageSize(images, c.target.image), c.target.mip)
              IN /\ c.extent = level
                 /\ ViewportAt(cmds, viewports, begins[k]) = level
                 /\ c.target.image = "filt"
                       => c.extent = <<512, 256, 128, 64, 32>>[c.target.mip + 1]

C21_Witness ==
    \E t \in Recorded :
        \E i \in 1..Len(threads[t].res.cmds) :
            /\ threads[t].res.cmds[i].op = "begin_render_pass"
            /\ threads[t].res.cmds[i].target = [image |-> "filt", layer |-> 5, mip |-> 4]
            /\ threads[t].res.cmds[i].extent = 32

\* C22: the five roughness push constants are 0/4, 1/4, 2/4, 3/4, 4/4 in
\* recording order, and the roughness in effect for every prefilter pass of
\* mip m is m / (M - 1), M = 5.
C22_RoughnessPerMip ==
    \A t \in Recorded :
        LET cmds == threads[t].res.cmds
            pushes == Indexes(cmds, "push_constants")
            ps == Passes(cmds)
        IN /\ Len(pushes) = FiltMips
           /\ \A j \in 1..Len(pushes) :
                 cmds[pushes[j]].roughness = [num |-> j - 1, den |-> FiltMips - 1]
           /\ cmds[pushes[1]].roughness.num = 0
           /\ cmds[pushes[Len(pushes)]].roughness.num = cmds[pushes[Len(pushes)]].roughness.den
           /\ \A k \in 1..Len(ps) :
                 ps[k].kind = "filt" =>
                    ps[k].roughness = [num |-> ps[k].target.mip, den |-> FiltMips - 1]

C22_Witness ==
    \E t \in Recorded :
        LET ps == Passes(threads[t].res.cmds)
        IN /\ Len(ps) = 42
           /\ ps[42].roughness = [num |-> 4, den |-> 4]
           /\ ps[13].roughness = [num |-> 0, den |-> 4]

\* C23: the EquirectToCube pass for face i attaches array layer i, mip 0 of
\* the raw cube and nothing else, samples the panorama, and there is one
\* such pass per face.
C23_EquiFaceWritesOnlyItsLayer ==
    \A t \in Recorded :
        LET ps == Passes(threads[t].res.cmds)
            equi == {k \in 1..Len(ps) : ps[k].kind = "equi"}
        IN /\ \A k \in equi :
                 /\ ps[k].target = [image |-> "cube", layer |-> ps[k].camera, mip |-> 0]
                 /\ ps[k].source = "equi_set"
           /\ \A i \in 0..(NumFaces - 1) :
                 Cardinality({k \in equi : ps[k].camera = i}) = 1

C23_Witness ==
    \E t \in Recorded :
        LET ps == Passes(threads[t].res.cmds)
        IN /\ ps[6].kind = "equi"
           /\ ps[6].target = [image |-> "cube", layer |-> 5, mip |-> 0]
           /\ ps[7].kind = "conv"

\* C24: every pass renders layer i with camera i, and the six cameras look
\* from the origin along +X, -X, +Y, -Y, +Z, -Z in that order, all with the
\* same projection of 90 degrees field of view and aspect ratio 1.
CubeLayerDirections ==
    << <<1, 0, 0>>, <<-1, 0, 0>>, <<0, 1, 0>>, <<0, -1, 0>>, <<0, 0, 1>>, <<0, 0, -1>> >>

C24_FaceCameraOrder ==
    \A t \in Recorded :
        LET ps == Passes(threads[t].res.cmds)
        IN \A k \in 1..Len(ps) :
              LET cam == create_cubemap_cameras[ps[k].camera + 1]
              IN /\ ps[k].camera = ps[k].target.layer
                 /\ cam.eye = <<0, 0, 0>>
                 /\ cam.center = CubeLayerDirections[ps[k].target.layer + 1]
                 /\ cam.proj = create_cubemap_cameras[1].proj
                 /\ cam.proj.fovy = 90 /\ cam.proj.aspect = 1

C24_Witness ==
    \E t \in Recorded :
        LET ps == Passes(threads[t].res.cmds)
        IN /\ ps[42].camera = 5 /\ ps[42].target.layer = 5
           /\ create_cubemap_cameras[6].center = <<0, 0, -1>>

\* C26: the cube sampled by every prefilter pass has the per-face resolution
\* the prefilter shader assumes for its source cubemap.
C26_PrefilterSourceIs512 ==
    \A t \in Recorded :
        LET ps == Passes(threads[t].res.cmds)
        IN \A k \in 1..Len(ps) :
              ps[k].kind = "filt" =>
                 ImageSize(threads[t].res.images, set_image(ps[k].source)) = SourceResolution

\* C27: the cube mesh has 8 vertices and 36 indices, every index below 8; the
\* indices form 12 triangles of three distinct corners; each of the six faces
\* holds exactly two triangles; and every bake draw and the skybox display
\* draw that one mesh.
Triangles ==
    [k \in 1..(Len(INDICES) \div 3) |->
        <<INDICES[3 * k - 2], INDICES[3 * k - 1], INDICES[3 * k]>>]

OnFace(tri, axis, sign) == \A j \in 1..3 : VERTICES[tri[j] + 1][axis] = sign

C27_CubeGeometry ==
    /\ Len(VERTICES) = 8
    /\ Len(INDICES) = 36 /\ Len(INDICES) = IndexCount
    /\ \A k \in 1..Len(INDICES) : INDICES[k] \in 0..(Len(VERTICES) - 1)
    /\ Len(Triangles) = 12
    /\ \A k \in 1..Len(Triangles) : Cardinality({Triangles[k][j] : j \in 1..3}) = 3
    /\ \A axis \in 1..3 : \A sign \in {-1, 1} :
          Cardinality({k \in 1..Len(Triangles) : OnFace(Triangles[k], axis, sign)}) = 2
    /\ \A k \in 1..Len(Triangles) :
          \E axis \in 1..3 : \E sign \in {-1, 1} : OnFace(Triangles[k], axis, sign)
    /\ \A t \in Recorded :
          \A i \in 1..Len(threads[t].res.cmds) :
              threads[t].res.cmds[i].op = "draw_indexed"
                 => /\ threads[t].res.cmds[i].mesh = CubeMeshArc
                    /\ threads[t].res.cmds[i].count = Len(INDICES)
    /\ \A k \in 1..Len(frames) : frames[k].mesh \subseteq {CubeMeshArc}

C27_Witness ==
    /\ \E k \in 1..Len(frames) : frames[k].mesh = {CubeMeshArc}
    /\ \E t \in Recorded :
          /\ threads[t].res.cmds[5].op = "bind_pipeline_graphics"
          /\ threads[t].res.cmds[7].op = "draw_indexed"
          /\ threads[t].res.cmds[7].mesh = CubeMeshArc

\* C30: in the recorded stream the begin, draw and end commands come in
\* triples begin, one indexed draw of the cube, end, so passes never nest and
\* none is open at the end; there are 42 passes: 6 equirect, 6 irradiance and
\* 30 prefilter.
C30_RenderPassesWellFormed ==
    \A t \in Recorded :
        LET cmds == threads[t].res.cmds
            marks == SelectSeq(cmds, LAMBDA c :
                        c.op \in {"begin_render_pass", "draw_indexed", "end_render_pass"})
            ps == Passes(cmds)
        IN /\ Len(marks) = 3 * 42
           /\ \A k \in 1..Len(marks) :
                 marks[k].op =
                    <<"begin_render_pass", "draw_indexed", "end_render_pass">>[((k - 1) % 3) + 1]
           /\ \A k \in 1..Len(marks) :
                 marks[k].op = "draw_indexed" => marks[k].count = IndexCount
           /\ cmds[Len(cmds)].op = "end_render_pass"
           /\ Cardinality({k \in 1..Len(ps) : ps[k].kind = "equi"}) = 6
           /\ Cardinality({k \in 1..Len(ps) : ps[k].kind = "conv"}) = 6
           /\ Cardinality({k \in 1..Len(ps) : ps[k].kind = "filt"}) = 30

C30_Witness ==
    \E t \in Recorded :
        /\ Len(threads[t].res.cmds) = 1 + 42 * 5 + 7 * 2 + 5
        /\ threads[t].res.cmds[Len(threads[t].res.cmds)].op = "end_render_pass"
        /\ gpu[t] = "idle"

\* the number of binary digits of a natural number
RECURSIVE BitLen(_)
BitLen(n) == IF n = 0 THEN 0 ELSE 1 + BitLen(n \div 2)

\* a float mant * 2^exp lies in [0,1), and is exactly 1
BelowOne(f) == f.mant >= 0 /\ BitLen(f.mant) + f.exp <= 0
IsOne(f) == f.exp \in -30..0 /\ f.mant = Pow2(0 - f.exp)

\* the bits of a uint in the opposite order
Reversed(bits) == {31 - j : j \in bits}

\* the first coordinate of a sample: both conversions exact, i / N below 1
FirstCoordinateInUnit(x) == x.num.exp = 0 /\ x.den.exp = 0 /\ 0 <= x.num.mant /\ x.num.mant < x.den.mant

====
